---- MODULE Spec2Model ----
(***************************************************************************)
(* A model of the headless-tree core: the normalized tree, the parent and  *)
(* child-position index maps, flattenTree (its explicit-stack loop, one    *)
(* action per iteration) and the structural mutators insertTreeItem,       *)
(* removeTreeItem and moveTreeItem.                                        *)
(*                                                                         *)
(* Node ids are the integers 1..MaxId; the parent "null" is Null and a     *)
(* Map lookup that finds nothing is Undefined.  A tree is a record         *)
(*   [rootIds : Seq(Ids), items : [K -> node]]   with K a subset of Ids,   *)
(* a node is [id, children, isOpened, customData].                         *)
(***************************************************************************)
EXTENDS Integers, Sequences, FiniteSets, TLC

\* ------------------------------------------------------------------ bounds
MaxRefs == 3
MaxSteps == 2
MaxOut == 5
MaxStack == 4
MaxDepth == 4
\* the calls of one batch on useTreeState
MaxBatch == 2

\* the node ids, 1..MaxId
Ids == 1..3
MaxId == Cardinality(Ids)
Null == 0
Undefined == 0 - 1

\* tree: the caller's current structural tree.
\* call, ret, callerTree, logCount, answer: a call of a mutator or of
\*   canMoveItem on tree that has returned (call.op and its arguments;
\*   call.op = "none" between calls), the tree it returned (ret), the caller's
\*   tree object as the call left it (callerTree), the number of diagnostics
\*   it logged and canMoveItem's answer.
\* steps: the number of returned trees the caller has adopted.
\* pc, stack, flattenedItems, errors, truncated: a run of flattenTree(tree).
\* openedIds, props, idType: the state of useTreeState around tree (its
\*   baseTree): the open-state Set, the props of the latest render
\*   (initialTree, options) and whether the caller's ids are numbers or strings.
VARIABLES tree, call, ret, callerTree, logCount, answer, steps,
          pc, stack, flattenedItems, errors, truncated,
          openedIds, props, idType,
          visited, path, descendants, builtParentMap, builtChildrenIndexMap

editVars == <<call, ret, callerTree, logCount, answer, steps>>

flatVars == <<pc, stack, flattenedItems, errors, truncated>>

hookVars == <<openedIds, props, idType>>

\* visited, path: the visited Set of a run of getPath and the path it returned
\* descendants: the array a call of getAllDescendantIds returned
\* builtParentMap, builtChildrenIndexMap: the Maps buildParentMap and
\*   buildChildrenIndexMap returned
indexVars == <<builtParentMap, builtChildrenIndexMap>>

pathVars == <<visited, path, descendants, builtParentMap, builtChildrenIndexMap>>

vars == <<tree, call, ret, callerTree, logCount, answer, steps,
          pc, stack, flattenedItems, errors, truncated,
          openedIds, props, idType,
          visited, path, descendants, builtParentMap, builtChildrenIndexMap>>

\* ------------------------------------------------------------ sequences
Range(s) == {s[i] : i \in 1..Len(s)}

Min(a, b) == IF a < b THEN a ELSE b

\* Array.prototype.filter
RECURSIVE SelectIds(_, _)
SelectIds(s, keep) ==
  IF s = <<>> THEN <<>>
  ELSE IF Head(s) \in keep THEN <<Head(s)>> \o SelectIds(Tail(s), keep)
  ELSE SelectIds(Tail(s), keep)

\* Array.prototype.indexOf, 0-based, -1 when absent
IndexOf(s, x) ==
  IF x \in Range(s) THEN (CHOOSE i \in 1..Len(s) : s[i] = x /\ \A j \in 1..(i - 1) : s[j] # x) - 1
  ELSE 0 - 1

\* the index a Map filled by forEach((id, index) => map.set(id, index)) ends with
LastIndexOf(s, x) ==
  (CHOOSE i \in 1..Len(s) : s[i] = x /\ \A j \in (i + 1)..Len(s) : s[j] # x) - 1

\* ----------------------------------------------------------------- trees
Keys(t) == DOMAIN t.items

HasItem(t, id) == id \in Keys(t)

Node(id, ch, open) == [id |-> id, children |-> ch, isOpened |-> open, customData |-> id]

\* rootIds for Null, items[p].children otherwise
Collection(t, p) == IF p = Null THEN t.rootIds ELSE t.items[p].children

\* a variant of buildChildrenIndexMap that counts only the siblings that have
\* an item
buildChildrenIndexMapVisible(t) ==
  [p \in {Null} \cup Keys(t) |->
     [c \in Range(Collection(t, p)) |->
        IF HasItem(t, c) THEN IndexOf(SelectIds(Collection(t, p), Keys(t)), c)
        ELSE LastIndexOf(Collection(t, p), c)]]

buildChildrenIndexMap(t) ==
  [p \in {Null} \cup Keys(t) |->
     [c \in Range(Collection(t, p)) |-> LastIndexOf(Collection(t, p), c)]]

\* a parent map without the entries of the root ids
buildParentMapChildrenOnly(t) ==
  LET owners(c) == {k \in Keys(t) : c \in Range(t.items[k].children)}
  IN [c \in UNION {Range(t.items[k].children) : k \in Keys(t)} |->
        CHOOSE k \in owners(c) : \A j \in owners(c) : j <= k]

\* Object.values visits integer-like keys in ascending order, so the last
\* parentMap.set for a child comes from the largest key listing it.
buildParentMap(t) ==
  LET owners(c) == {k \in Keys(t) : c \in Range(t.items[k].children)}
      refd == Range(t.rootIds) \cup UNION {Range(t.items[k].children) : k \in Keys(t)}
  IN [c \in refd |->
        IF owners(c) # {} THEN CHOOSE k \in owners(c) : \A j \in owners(c) : j <= k
        ELSE Null]

ParentMapGet(pm, id) == IF id \in DOMAIN pm THEN pm[id] ELSE Undefined

\* ------------------------------------------------- arrays and who owns them
\* An array or an items object in the hands of a mutator: its contents, and
\* whether it is the caller's own object (shared) or one allocated by the call.
\* A write through a shared handle is a write to the caller's tree.
Original(a) == [elems |-> a, shared |-> TRUE]

Fresh(a) == [elems |-> a, shared |-> FALSE]

\* a variant of CopyArray that hands back the array it was given
ShareArray(h) == h

\* [...array]
CopyArray(h) == [elems |-> h.elems, shared |-> FALSE]

\* { ...tree.items }
CopyItems(h) == [elems |-> h.elems, shared |-> FALSE]

\* what the caller's array holds once the call is over
Written(h, original) == IF h.shared THEN h.elems ELSE original

Max(a, b) == IF a > b THEN a ELSE b

\* a splice that inserts nothing when start is beyond the end
SpliceWithinBounds(s, start, x) ==
  LET k == IF start < 0 THEN Max(Len(s) + start, 0) ELSE start
  IN IF k > Len(s) THEN s
     ELSE SubSeq(s, 1, k) \o <<x>> \o SubSeq(s, k + 1, Len(s))

\* array.splice(start, 0, x)
Splice(s, start, x) ==
  LET k == IF start < 0 THEN Max(Len(s) + start, 0) ELSE Min(start, Len(s))
  IN SubSeq(s, 1, k) \o <<x>> \o SubSeq(s, k + 1, Len(s))

\* array.splice(index, 1)
RemoveAt(s, index) == SubSeq(s, 1, index) \o SubSeq(s, index + 2, Len(s))

\* ----------------------------------------------------------- insertTreeItem
\* InsertPosition: 'first', 'last', {before: v}, {after: v} or the number v
Position(kind, v) == [kind |-> kind, v |-> v]

\* a variant of InsertIdIntoArray that puts the id at the anchor for {after}
InsertIdIntoArrayAtAnchor(position, treeItemIds, newItem, parentId, cim) ==
  LET result == CopyArray(treeItemIds)
      anchor == IF parentId \in DOMAIN cim /\ position.v \in DOMAIN cim[parentId]
                THEN cim[parentId][position.v] ELSE Undefined
      put(e) == [result |-> [result EXCEPT !.elems = e], logs |-> 0]
      fail == [result |-> result, logs |-> 1]
  IN CASE position.kind = "first" -> put(<<newItem.id>> \o result.elems)
       [] position.kind = "last" -> put(Append(result.elems, newItem.id))
       [] position.kind \in {"before", "after"} ->
            IF anchor = Undefined THEN fail ELSE put(Splice(result.elems, anchor, newItem.id))
       [] OTHER ->
            IF position.v < 0 \/ position.v > Len(result.elems) THEN fail
            ELSE put(Splice(result.elems, position.v, newItem.id))

\* returns the new array and the number of diagnostics
InsertIdIntoArray(position, treeItemIds, newItem, parentId, cim) ==
  LET result == CopyArray(treeItemIds)
      anchor == IF parentId \in DOMAIN cim /\ position.v \in DOMAIN cim[parentId]
                THEN cim[parentId][position.v] ELSE Undefined
      put(e) == [result |-> [result EXCEPT !.elems = e], logs |-> 0]
      fail == [result |-> result, logs |-> 1]
  IN CASE position.kind = "first" -> put(<<newItem.id>> \o result.elems)
       [] position.kind = "last" -> put(Append(result.elems, newItem.id))
       [] position.kind = "before" ->
            IF anchor = Undefined THEN fail ELSE put(Splice(result.elems, anchor, newItem.id))
       [] position.kind = "after" ->
            IF anchor = Undefined THEN fail
            ELSE put(Splice(result.elems, anchor + 1, newItem.id))
       [] OTHER ->
            IF position.v < 0 \/ position.v > Len(result.elems) THEN fail
            ELSE put(Splice(result.elems, position.v, newItem.id))

\* A mutator's outcome: the tree it returns, the caller's tree as the call
\* leaves it, and the number of logError calls.
Outcome(returned, input, logs) == [tree |-> returned, input |-> input, logs |-> logs]

\* a variant that spreads tree.items over newItem: an existing item stays
InsertTreeItemKeepsExisting(t, parentId, newItem, position, cim) ==
  LET newRootIds == CopyArray(Original(t.rootIds))
      newTreeItems == [k \in Keys(t) \cup {newItem.id} |->
                         IF k \in Keys(t) THEN t.items[k] ELSE newItem]
  IN IF parentId = Null
     THEN LET r == InsertIdIntoArray(position, newRootIds, newItem, parentId, cim)
          IN Outcome([rootIds |-> r.result.elems, items |-> newTreeItems],
                     [t EXCEPT !.rootIds = Written(r.result, @)], r.logs)
     ELSE IF parentId \notin DOMAIN newTreeItems
     THEN Outcome(t, t, 1)
     ELSE LET own == parentId \in Keys(t) /\ parentId # newItem.id
              passed == IF own THEN Original(newTreeItems[parentId].children)
                        ELSE Fresh(newTreeItems[parentId].children)
              r == InsertIdIntoArray(position, passed, newItem, parentId, cim)
              input == IF own THEN [t EXCEPT !.items[parentId].children = Written(r.result, @)]
                       ELSE t
          IN Outcome([rootIds |-> newRootIds.elems,
                      items |-> [newTreeItems EXCEPT ![parentId].children = r.result.elems]],
                     input, r.logs)

InsertTreeItem(t, parentId, newItem, position, cim) ==
  LET newRootIds == CopyArray(Original(t.rootIds))
      newTreeItems == [k \in Keys(t) \cup {newItem.id} |->
                         IF k = newItem.id THEN newItem ELSE t.items[k]]
  IN IF parentId = Null
     THEN LET r == InsertIdIntoArray(position, newRootIds, newItem, parentId, cim)
          IN Outcome([rootIds |-> r.result.elems, items |-> newTreeItems],
                     [t EXCEPT !.rootIds = Written(r.result, @)], r.logs)
     ELSE IF parentId \notin DOMAIN newTreeItems
     THEN Outcome(t, t, 1)
     ELSE LET own == parentId \in Keys(t) /\ parentId # newItem.id
              passed == IF own THEN Original(newTreeItems[parentId].children)
                        ELSE Fresh(newTreeItems[parentId].children)
              r == InsertIdIntoArray(position, passed, newItem, parentId, cim)
              input == IF own THEN [t EXCEPT !.items[parentId].children = Written(r.result, @)]
                       ELSE t
          IN Outcome([rootIds |-> newRootIds.elems,
                      items |-> [newTreeItems EXCEPT ![parentId].children = r.result.elems]],
                     input, r.logs)

\* ------------------------------------------------------ getAllDescendantIds
\* the while (queue.length > 0) loop: shift, record, queue the children
RECURSIVE DescendantWalkDepthFirst(_, _, _)
DescendantWalkDepthFirst(t, queue, found) ==
  IF queue = <<>> THEN found
  ELSE LET currentId == Head(queue)
           children == IF HasItem(t, currentId) THEN t.items[currentId].children ELSE <<>>
       IN DescendantWalkDepthFirst(t, children \o Tail(queue), Append(found, currentId))

RECURSIVE DescendantWalk(_, _, _)
DescendantWalk(t, queue, found) ==
  IF queue = <<>> THEN found
  ELSE LET currentId == Head(queue)
           children == IF HasItem(t, currentId) THEN t.items[currentId].children ELSE <<>>
       IN DescendantWalk(t, Tail(queue) \o children, Append(found, currentId))

getAllDescendantIds(t, id) ==
  DescendantWalk(t, IF HasItem(t, id) THEN t.items[id].children ELSE <<>>, <<>>)

ChildIdsOf(t, S) == UNION {Range(t.items[k].children) : k \in S \cap Keys(t)}

RECURSIVE ReachWithin(_, _, _)
ReachWithin(t, S, n) ==
  IF n = 0 THEN S ELSE ReachWithin(t, S \cup ChildIdsOf(t, S), n - 1)

\* the ids below id in the children relation
DescendantSet(t, id) == ReachWithin(t, ChildIdsOf(t, {id}), MaxId)

\* The queue of getAllDescendantIds(t, id) runs empty unless a node at or
\* below id is its own descendant; otherwise the loop never ends.
DescendantWalkEnds(t, id) ==
  \A k \in ({id} \cup DescendantSet(t, id)) \cap Keys(t) : k \notin DescendantSet(t, k)

\* -------------------------------------------------------------- canMoveItem
\* a variant of canMoveItem without the check of the source against itself
canMoveItemNoSelfCheck(t, sourceId, targetId) ==
  targetId \notin Range(getAllDescendantIds(t, sourceId))

canMoveItem(t, sourceId, targetId) ==
  IF sourceId = targetId THEN FALSE
  ELSE targetId \notin Range(getAllDescendantIds(t, sourceId))

\* ----------------------------------------------------------- removeTreeItem
\* a variant of getNewItems that deletes the item and its children only
getNewItemsShallow(t, itemId) ==
  LET allIdsToRemove == {itemId} \cup Range(t.items[itemId].children)
      newItems == CopyItems(Original(t.items))
  IN [newItems EXCEPT !.elems = [k \in DOMAIN @ \ allIdsToRemove |-> @[k]]]

\* { ...tree.items } without itemId and its descendants
getNewItems(t, itemId) ==
  LET allIdsToRemove == {itemId} \cup Range(getAllDescendantIds(t, itemId))
      newItems == CopyItems(Original(t.items))
  IN [newItems EXCEPT !.elems = [k \in DOMAIN @ \ allIdsToRemove |-> @[k]]]

\* null is [ok |-> FALSE]
removeFromRoot(itemId, rootIds) ==
  LET newRootIds == CopyArray(rootIds)
      rootIndex == IndexOf(newRootIds.elems, itemId)
  IN IF rootIndex = 0 - 1
     THEN [ok |-> FALSE, rootIds |-> newRootIds, logs |-> 1]
     ELSE [ok |-> TRUE, rootIds |-> [newRootIds EXCEPT !.elems = RemoveAt(@, rootIndex)],
           logs |-> 0]

\* a variant that leaves the parent's children as they are
removeFromParentKeepsChild(itemId, parentId, newItems) ==
  IF parentId \notin DOMAIN newItems.elems
  THEN [ok |-> FALSE, items |-> newItems, logs |-> 1]
  ELSE [ok |-> TRUE, items |-> newItems, logs |-> 0]

\* writes the parent's new children into newItems
removeFromParent(itemId, parentId, newItems) ==
  IF parentId \notin DOMAIN newItems.elems
  THEN [ok |-> FALSE, items |-> newItems, logs |-> 1]
  ELSE [ok |-> TRUE,
        items |-> [newItems EXCEPT !.elems[parentId].children = SelectIds(@, Ids \ {itemId})],
        logs |-> 0]

\* a variant that takes a missing entry for a root entry
getNewRootIdsMissingAsRoot(itemId, parentMap, t, newItems) ==
  LET foundParentId == ParentMapGet(parentMap, itemId)
  IN IF foundParentId = Undefined \/ foundParentId = Null
     THEN LET r == removeFromRoot(itemId, Original(t.rootIds))
          IN [ok |-> r.ok, rootIds |-> r.rootIds, items |-> newItems, logs |-> r.logs]
     ELSE LET r == removeFromParent(itemId, foundParentId, newItems)
          IN [ok |-> r.ok, rootIds |-> CopyArray(Original(t.rootIds)), items |-> r.items,
              logs |-> r.logs]

getNewRootIds(itemId, parentMap, t, newItems) ==
  LET foundParentId == ParentMapGet(parentMap, itemId)
  IN IF foundParentId = Undefined
     THEN [ok |-> FALSE, rootIds |-> Original(t.rootIds), items |-> newItems, logs |-> 1]
     ELSE IF foundParentId = Null
     THEN LET r == removeFromRoot(itemId, Original(t.rootIds))
          IN [ok |-> r.ok, rootIds |-> r.rootIds, items |-> newItems, logs |-> r.logs]
     ELSE LET r == removeFromParent(itemId, foundParentId, newItems)
          IN [ok |-> r.ok, rootIds |-> CopyArray(Original(t.rootIds)), items |-> r.items,
              logs |-> r.logs]

\* the caller's tree after writes through the handles of its rootIds and items
InputAfter(t, rootIds, items) ==
  [rootIds |-> Written(rootIds, t.rootIds), items |-> Written(items, t.items)]

RemoveTreeItem(t, itemId, parentMap) ==
  IF ~HasItem(t, itemId)
  THEN Outcome(t, t, 1)
  ELSE LET newItems == getNewItems(t, itemId)
           r == getNewRootIds(itemId, parentMap, t, newItems)
           input == InputAfter(t, r.rootIds, r.items)
       IN IF ~r.ok
          THEN Outcome(input, input, r.logs)
          ELSE Outcome([rootIds |-> r.rootIds.elems, items |-> r.items.elems], input, r.logs)

\* ------------------------------------------------------------- moveTreeItem
\* MoveTarget: {parentId, index: v} or {parentId, position: 'first' | 'last'}
MoveTarget(parentId, kind, v) == [parentId |-> parentId, kind |-> kind, v |-> v]

\* a variant of RemoveFromCurrentParent that only looks for the source in rootIds
\* a variant that leaves the source where it is
KeepInCurrentParent(newRootIds, newItems, sourceParentId, sourceId) ==
  [rootIds |-> newRootIds, items |-> newItems, filtered |-> FALSE]

RemoveFromRootOnly(newRootIds, newItems, sourceParentId, sourceId) ==
  LET sourceIndex == IndexOf(newRootIds.elems, sourceId)
  IN [rootIds |-> IF sourceIndex # 0 - 1
                  THEN [newRootIds EXCEPT !.elems = RemoveAt(@, sourceIndex)]
                  ELSE newRootIds,
      items |-> newItems,
      filtered |-> FALSE]

\* 1. remove source from its current parent; filtered tells that the parent
\* got a new children array
RemoveFromCurrentParent(newRootIds, newItems, sourceParentId, sourceId) ==
  LET atRoot == sourceParentId = Undefined \/ sourceParentId = Null
      sourceIndex == IndexOf(newRootIds.elems, sourceId)
      filtered == ~atRoot /\ sourceParentId \in DOMAIN newItems.elems
  IN [rootIds |-> IF atRoot /\ sourceIndex # 0 - 1
                  THEN [newRootIds EXCEPT !.elems = RemoveAt(@, sourceIndex)]
                  ELSE newRootIds,
      items |-> IF filtered
                THEN [newItems EXCEPT !.elems[sourceParentId].children =
                                        SelectIds(@, Ids \ {sourceId})]
                ELSE newItems,
      filtered |-> filtered]

MoveTreeItem(t, parentMap, sourceId, target) ==
  LET parentId == target.parentId
  IN IF ~HasItem(t, sourceId)
     THEN Outcome(t, t, 1)
     ELSE IF parentId # Null /\ ~HasItem(t, parentId)
     THEN Outcome(t, t, 1)
     ELSE
       LET sourceParentId == ParentMapGet(parentMap, sourceId)
           removed == RemoveFromCurrentParent(CopyArray(Original(t.rootIds)),
                                              CopyItems(Original(t.items)),
                                              sourceParentId, sourceId)
           newRootIds1 == removed.rootIds
           newItems1 == removed.items
           \* 2. calculate insert index
           insertIndex == IF target.kind = "index" THEN target.v
                          ELSE IF target.kind = "first" THEN 0
                          ELSE IF parentId = Null THEN Len(newRootIds1.elems)
                          ELSE Len(newItems1.elems[parentId].children)
           \* 3. insert source at new position; the target's children array is
           \* the filter's result when the target is the old parent, the
           \* caller's array otherwise
           newRootIds2 == IF parentId = Null
                          THEN [newRootIds1 EXCEPT !.elems = Splice(@, insertIndex, sourceId)]
                          ELSE newRootIds1
           held == IF removed.filtered /\ sourceParentId = parentId
                   THEN Fresh(newItems1.elems[parentId].children)
                   ELSE Original(newItems1.elems[parentId].children)
           children == [CopyArray(held) EXCEPT !.elems = Splice(@, insertIndex, sourceId)]
           newItems2 == IF parentId = Null THEN newItems1
                        ELSE [newItems1 EXCEPT !.elems[parentId].children = children.elems]
           input == InputAfter(t, newRootIds2, newItems2)
       IN Outcome([rootIds |-> newRootIds2.elems, items |-> newItems2.elems],
                  IF parentId = Null \/ newItems2.shared THEN input
                  ELSE [input EXCEPT !.items[parentId].children = Written(children, @)],
                  0)

\* -------------------------------------------------------------- flattenTree
\* a variant of StackItem that records the node itself as its parent
StackItemOwnParent(id, depth, cdht, parentId, isLast, childIndex) ==
  [id |-> id, depth |-> depth, completeDepthHashTable |-> cdht, parentId |-> id,
   isLastTreeInSameDepth |-> isLast, childIndex |-> childIndex]

StackItem(id, depth, cdht, parentId, isLast, childIndex) ==
  [id |-> id, depth |-> depth, completeDepthHashTable |-> cdht, parentId |-> parentId,
   isLastTreeInSameDepth |-> isLast, childIndex |-> childIndex]

\* the stack after the root priming loop; the head of the sequence is the top
RootStack(t, cim) ==
  [i \in 1..Len(t.rootIds) |->
     StackItem(t.rootIds[i], 0, {}, Null, i = Len(t.rootIds), cim[Null][t.rootIds[i]])]

\* a variant of ChildItems that pushes the children in forward order, so that
\* pop() yields them last first
RECURSIVE ChildItemsForwardPush(_, _, _, _, _, _)
ChildItemsForwardPush(t, cim, item, i, depth, cdht) ==
  IF i > Len(item.children) THEN <<>>
  ELSE LET childId == item.children[i]
           rest == ChildItemsForwardPush(t, cim, item, i + 1, depth, cdht)
       IN IF HasItem(t, childId)
          THEN rest \o <<StackItem(childId, depth, cdht, item.id,
                                   i = Len(item.children), cim[item.id][childId])>>
          ELSE rest

\* the entries pushed for the children of an expanded item, top first
RECURSIVE ChildItems(_, _, _, _, _, _)
ChildItems(t, cim, item, i, depth, cdht) ==
  IF i > Len(item.children) THEN <<>>
  ELSE LET childId == item.children[i]
           rest == ChildItems(t, cim, item, i + 1, depth, cdht)
       IN IF HasItem(t, childId)
          THEN <<StackItem(childId, depth, cdht, item.id,
                           i = Len(item.children), cim[item.id][childId])>> \o rest
          ELSE rest

\* a variant of SkipInvalidItem that leaves the loop (break, not continue)
SkipInvalidItemBreak(st) ==
  [st EXCEPT !.stack = <<>>,
             !.errors = @ \cup {[kind |-> "item", id |-> Head(st.stack).id]}]

\* if (!item) { logError(...); continue; } with the popped entry on top of st.stack
SkipInvalidItem(st) ==
  [st EXCEPT !.stack = Tail(st.stack),
             !.errors = @ \cup {[kind |-> "item", id |-> Head(st.stack).id]}]

\* a variant of ShouldExpand that needs two children to descend
ShouldExpandMany(item) == item.isOpened /\ Len(item.children) > 1

\* item.isOpened && item.children?.length > 0
ShouldExpand(item) == item.isOpened /\ Len(item.children) > 0

\* a variant of NewCompleteDepthHashTable that marks the depth of every parent
NewCompleteDepthHashTableAlways(top) ==
  top.completeDepthHashTable \cup {top.depth}

\* isLastTreeInSameDepth ? completeDepthHashTable
\*                       : { ...completeDepthHashTable, [depth]: true }
NewCompleteDepthHashTable(top) ==
  IF top.isLastTreeInSameDepth THEN top.completeDepthHashTable
  ELSE top.completeDepthHashTable \cup {top.depth}

\* One iteration of while (stack.length > 0) on the loop state
\* st = [stack, flattenedItems, errors, truncated].  The output, the stack and
\* the depth are unbounded in the code; here an entry past MaxOut is dropped,
\* the stack keeps its top MaxStack entries and the depth stops at MaxDepth,
\* and truncated records that one of these happened.
LoopBody(t, cim, st) ==
  LET top == Head(st.stack)
      rest == Tail(st.stack)
  IN IF ~HasItem(t, top.id)
     THEN SkipInvalidItem(st)
     ELSE LET item == t.items[top.id]
              entry == [item |-> item, depth |-> top.depth,
                        isLastTreeInSameDepth |-> top.isLastTreeInSameDepth,
                        parentId |-> top.parentId,
                        completeDepthHashTable |-> top.completeDepthHashTable,
                        flatIndex |-> Len(st.flattenedItems),
                        childIndex |-> top.childIndex]
              newCompleteDepthHashTable == NewCompleteDepthHashTable(top)
              invalidChildren == SelectIds(item.children, Ids \ Keys(t))
              pushed == IF ShouldExpand(item)
                        THEN ChildItems(t, cim, item, 1, Min(top.depth + 1, MaxDepth),
                                        newCompleteDepthHashTable)
                        ELSE <<>>
              full == pushed \o rest
          IN [stack |-> IF Len(full) > MaxStack THEN SubSeq(full, 1, MaxStack) ELSE full,
              flattenedItems |-> IF Len(st.flattenedItems) < MaxOut
                                 THEN Append(st.flattenedItems, entry)
                                 ELSE st.flattenedItems,
              errors |-> IF ShouldExpand(item) /\ invalidChildren # <<>>
                         THEN st.errors \cup {[kind |-> "children", id |-> top.id]}
                         ELSE st.errors,
              truncated |-> (st.truncated \/ Len(st.flattenedItems) >= MaxOut
                             \/ Len(full) > MaxStack
                             \/ (ShouldExpand(item) /\ top.depth + 1 > MaxDepth))]

\* the loop state after the root priming loop
LoopInit(t, cim) ==
  [stack |-> RootStack(t, cim), flattenedItems |-> <<>>, errors |-> {}, truncated |-> FALSE]

\* flattenTree(t, buildChildrenIndexMap(t)) run to its return, for a tree on
\* which the loop ends
RECURSIVE RunLoop(_, _, _)
RunLoop(t, cim, st) ==
  IF st.stack = <<>> THEN st ELSE RunLoop(t, cim, LoopBody(t, cim, st))

flattenTree(t) == RunLoop(t, buildChildrenIndexMap(t), LoopInit(t, buildChildrenIndexMap(t)))

LoopState == [stack |-> stack, flattenedItems |-> flattenedItems, errors |-> errors,
              truncated |-> truncated]

SetLoopState(st) ==
  /\ stack' = st.stack
  /\ flattenedItems' = st.flattenedItems
  /\ errors' = st.errors
  /\ truncated' = st.truncated

FlattenStart ==
  /\ pc = "start"
  /\ SetLoopState(LoopInit(tree, buildChildrenIndexMap(tree)))
  /\ pc' = "loop"
  /\ UNCHANGED <<tree, editVars, hookVars, pathVars>>

\* the loop test finds the stack non-empty
FlattenTest ==
  /\ pc = "loop"
  /\ stack # <<>>
  /\ pc' = "body"
  /\ UNCHANGED <<tree, stack, flattenedItems, errors, truncated, editVars, hookVars, pathVars>>

FlattenStep ==
  /\ pc = "body"
  /\ SetLoopState(LoopBody(tree, buildChildrenIndexMap(tree), LoopState))
  /\ pc' = "loop"
  /\ UNCHANGED <<tree, editVars, hookVars, pathVars>>

FlattenReturn ==
  /\ pc = "loop"
  /\ stack = <<>>
  /\ pc' = "done"
  /\ UNCHANGED <<tree, stack, flattenedItems, errors, truncated, editVars, hookVars, pathVars>>

\* ------------------------------------------------------ well-formed trees
Occurrences(s, x) == Cardinality({i \in 1..Len(s) : s[i] = x})

\* how often id is listed in rootIds and in all children lists
RefCount(t, id) ==
  LET RECURSIVE Sum(_)
      Sum(K) == IF K = {} THEN 0
                ELSE LET k == CHOOSE x \in K : TRUE
                     IN Occurrences(t.items[k].children, id) + Sum(K \ {k})
  IN Occurrences(t.rootIds, id) + Sum(Keys(t))

Acyclic(t) == \A k \in Keys(t) : k \notin DescendantSet(t, k)

\* the data model's invariants: every reference has an item, every item is
\* referenced exactly once, no node is its own ancestor
WellFormed(t) ==
  /\ Range(t.rootIds) \cup ChildIdsOf(t, Keys(t)) \subseteq Keys(t)
  /\ \A k \in Keys(t) : RefCount(t, k) = 1
  /\ Acyclic(t)

\* ------------------------------------------------- inputs of flattenTree
SeqsUpTo(S, n) == UNION {[1..k -> S] : k \in 0..n}

\* nondecreasing cut points c[0] <= ... <= c[MaxId] = Len(s) splitting s into
\* rootIds and the children of each id
Cuts(n) == {c \in [0..MaxId -> 0..n] : c[MaxId] = n /\ \A k \in Ids : c[k - 1] <= c[k]}

CutTree(s, c, present, opened) ==
  [rootIds |-> SubSeq(s, 1, c[0]),
   items |-> [k \in present |-> Node(k, SubSeq(s, c[k - 1] + 1, c[k]), k \in opened)]]

Call(op, id, parentId, kind, v) ==
  [op |-> op, id |-> id, parentId |-> parentId, kind |-> kind, v |-> v]

NoCall ==
  /\ call = Call("none", Null, Null, "none", 0)
  /\ ret = tree
  /\ callerTree = tree
  /\ logCount = 0
  /\ answer = FALSE
  /\ steps = 0

\* every tree over Ids holding at most MaxRefs references in all: dangling
\* references, shared children, cycles and unreferenced items included
AnyTree ==
  \E s \in SeqsUpTo(Ids, MaxRefs) :
    \E c \in Cuts(Len(s)) :
      \E present \in SUBSET Ids :
        \E opened \in SUBSET present :
          /\ \A k \in Ids \ present : c[k - 1] = c[k]
          /\ tree = CutTree(s, c, present, opened)

NoRun ==
  /\ stack = <<>>
  /\ flattenedItems = <<>>
  /\ errors = {}
  /\ truncated = FALSE
  /\ visited = {}
  /\ path = <<>>
  /\ descendants = <<>>
  /\ builtParentMap = <<>>
  /\ builtChildrenIndexMap = <<>>

EmptyTree == [rootIds |-> <<>>, items |-> <<>>]

\* no useTreeState mounted
NoHook ==
  /\ openedIds = {}
  /\ props = [initialTree |-> EmptyTree, syncWithInitialTree |-> FALSE,
              initialOpenedIds |-> [given |-> FALSE, ids |-> <<>>]]
  /\ idType = "string"

InitFlat == AnyTree /\ NoCall /\ pc = "start" /\ NoRun /\ NoHook

NextFlat == FlattenStart \/ FlattenTest \/ FlattenStep \/ FlattenReturn

SpecFlat == InitFlat /\ [][NextFlat]_vars

FairSpecFlat == SpecFlat /\ WF_vars(NextFlat)

\* ------------------------------------------------- the mutators, as called
NewItem(id) == [id |-> id, children |-> <<>>, isOpened |-> FALSE, customData |-> 0]

\* the numeric positions tried: one below 0 up to past the end of any collection
IndexRange == (0 - 1)..(MaxRefs + 1)

InsertPositions ==
  {Position("first", 0), Position("last", 0)}
    \cup {Position(kind, x) : kind \in {"before", "after"}, x \in Ids}
    \cup {Position("index", v) : v \in IndexRange}

MoveTargets ==
  {MoveTarget(p, kind, 0) : p \in {Null} \cup Ids, kind \in {"first", "last"}}
    \cup {MoveTarget(p, "index", v) : p \in {Null} \cup Ids, v \in IndexRange}

\* a mutator called on tree has returned
Returns(c, o) ==
  /\ call' = c
  /\ ret' = o.tree
  /\ callerTree' = o.input
  /\ logCount' = o.logs
  /\ answer' = FALSE
  /\ UNCHANGED <<tree, steps, flatVars, hookVars, pathVars>>

Insert ==
  /\ call.op = "none"
  /\ steps < MaxSteps
  /\ \E parentId \in {Null} \cup Ids, id \in Ids, position \in InsertPositions :
       Returns(Call("insert", id, parentId, position.kind, position.v),
               InsertTreeItem(tree, parentId, NewItem(id), position,
                              buildChildrenIndexMap(tree)))

\* a call whose descendant walk never ends does not return
Remove ==
  /\ call.op = "none"
  /\ steps < MaxSteps
  /\ \E itemId \in Ids :
       /\ HasItem(tree, itemId) => DescendantWalkEnds(tree, itemId)
       /\ Returns(Call("remove", itemId, Null, "none", 0),
                  RemoveTreeItem(tree, itemId, buildParentMap(tree)))

Move ==
  /\ call.op = "none"
  /\ steps < MaxSteps
  /\ \E sourceId \in Ids, target \in MoveTargets :
       Returns(Call("move", sourceId, target.parentId, target.kind, target.v),
               MoveTreeItem(tree, buildParentMap(tree), sourceId, target))

\* the caller replaces its tree by the one the mutator returned
Adopt ==
  /\ call.op \in {"insert", "remove", "move"}
  /\ tree' = ret
  /\ call' = Call("none", Null, Null, "none", 0)
  /\ ret' = ret
  /\ callerTree' = ret
  /\ logCount' = 0
  /\ answer' = FALSE
  /\ steps' = steps + 1
  /\ UNCHANGED <<flatVars, hookVars, pathVars>>

CanMove ==
  /\ call.op = "none"
  /\ \E sourceId \in Ids, targetId \in Ids :
       /\ sourceId # targetId => DescendantWalkEnds(tree, sourceId)
       /\ call' = Call("canMove", sourceId, targetId, "none", 0)
       /\ answer' = canMoveItem(tree, sourceId, targetId)
       /\ UNCHANGED <<tree, ret, callerTree, logCount, steps, flatVars, hookVars, pathVars>>

InjectiveSeqs == {s \in SeqsUpTo(Ids, MaxId) : \A i, j \in 1..Len(s) : i # j => s[i] # s[j]}

OpenedAtStart == {k \in Ids : k % 2 = 1}

\* every well-formed tree over Ids, the odd ids open
Init ==
  /\ \E s \in InjectiveSeqs :
       \E c \in Cuts(Len(s)) :
         /\ tree = CutTree(s, c, Range(s), OpenedAtStart \cap Range(s))
         /\ WellFormed(tree)
  /\ NoCall
  /\ pc = "idle"
  /\ NoRun
  /\ NoHook

Next == Insert \/ Remove \/ Move \/ Adopt

Spec == Init /\ [][Next]_vars

\* canMoveItem asked about any two ids of any tree
InitQuery == AnyTree /\ NoCall /\ pc = "idle" /\ NoRun /\ NoHook

NextQuery == CanMove

SpecQuery == InitQuery /\ [][NextQuery]_vars

\* ------------------------------------------------------- mutators: claims
\* the target collection of the call, before and after
TargetBefore == Collection(tree, call.parentId)

TargetAfter == Collection(ret, call.parentId)

\* a move of an existing source of a well-formed tree to the root collection
\* or below an existing node that canMoveItem allows
MoveAllowed ==
  /\ call.op = "move"
  /\ WellFormed(tree)
  /\ HasItem(tree, call.id)
  /\ call.parentId # Null => (HasItem(tree, call.parentId)
                               /\ canMoveItem(tree, call.id, call.parentId))

\* the length of the target collection once the source is taken out of it
PostRemovalLength == Len(SelectIds(TargetBefore, Ids \ {call.id}))

\* the source is listed once in the whole tree, below the target parent, and
\* kept its own children
MovedOnceTo(index) ==
  /\ RefCount(ret, call.id) = 1
  /\ IndexOf(TargetAfter, call.id) = index
  /\ ret.items[call.id].children = tree.items[call.id].children

\* C2, as stated: after an allowed move the source appears exactly once, at
\* position 0 for 'first', the last position for 'last' and the given index
\* for an explicit index (taken to be >= 0), its children unchanged.
C2_MoveAtGivenIndex ==
  (MoveAllowed /\ (call.kind = "index" => call.v >= 0)) =>
    MovedOnceTo(CASE call.kind = "first" -> 0
                  [] call.kind = "last" -> PostRemovalLength
                  [] OTHER -> call.v)

\* C2, amended: as above, but an explicit index is taken against the target
\* collection without the source: for an index >= 0 the source ends at
\* min(index, post-removal length).
C2_MoveInvariant ==
  (MoveAllowed /\ (call.kind = "index" => call.v >= 0)) =>
    MovedOnceTo(CASE call.kind = "first" -> 0
                  [] call.kind = "last" -> PostRemovalLength
                  [] OTHER -> Min(call.v, PostRemovalLength))

\* a node moved out of another collection to between two members of the target
C2_Witness ==
  /\ MoveAllowed
  /\ call.kind = "index"
  /\ call.v = 1
  /\ PostRemovalLength = 2
  /\ call.id \notin Range(TargetBefore)
  /\ IndexOf(TargetAfter, call.id) = 1

ValidPosition ==
  CASE call.kind \in {"first", "last"} -> TRUE
    [] call.kind \in {"before", "after"} -> call.v \in Range(TargetBefore)
    [] OTHER -> call.v >= 0 /\ call.v <= Len(TargetBefore)

ResolvedIndex ==
  CASE call.kind = "first" -> 0
    [] call.kind = "last" -> Len(TargetBefore)
    [] call.kind = "before" -> IndexOf(TargetBefore, call.v)
    [] call.kind = "after" -> IndexOf(TargetBefore, call.v) + 1
    [] OTHER -> call.v

InsertAllowed ==
  /\ call.op = "insert"
  /\ WellFormed(tree)
  /\ call.parentId = Null \/ HasItem(tree, call.parentId)
  /\ ~HasItem(tree, call.id)

\* C4: insertTreeItem of a fresh id below null or an existing parent at a valid
\* position makes the id a key of items and lists it exactly once in the
\* target collection, at the resolved index; rootIds and the children of
\* every other node keep their values.
C4_InsertInvariant ==
  (InsertAllowed /\ ValidPosition) =>
    /\ HasItem(ret, call.id)
    /\ ret.items[call.id] = NewItem(call.id)
    /\ Occurrences(TargetAfter, call.id) = 1
    /\ IndexOf(TargetAfter, call.id) = ResolvedIndex
    /\ SelectIds(TargetAfter, Ids \ {call.id}) = TargetBefore
    /\ call.parentId # Null => ret.rootIds = tree.rootIds
    /\ \A k \in Keys(tree) \ {call.parentId} : ret.items[k] = tree.items[k]

\* a fresh id put after the only child of a node
C4_Witness ==
  /\ InsertAllowed /\ ValidPosition
  /\ call.kind = "after"
  /\ call.parentId # Null
  /\ Len(TargetBefore) = 1
  /\ IndexOf(TargetAfter, call.id) = 1
  /\ Len(TargetAfter) = 2

\* C5: insertTreeItem with an anchor that is no member of the target
\* collection, or with a number outside [0, length], returns a tree equal to
\* the one it was given and reports a diagnostic.
C5_InvalidPositionIsNoOp ==
  (InsertAllowed /\ ~ValidPosition) => (ret = tree /\ logCount >= 1)

\* C9: insertTreeItem, removeTreeItem and moveTreeItem leave the tree they
\* were given as it was: its rootIds, its items and every children array.
C9_InputUntouched ==
  call.op \in {"insert", "remove", "move"} => callerTree = tree

\* a successful move out of rootIds into a node that already has a child
C9_Witness ==
  /\ call.op = "move"
  /\ callerTree = tree
  /\ logCount = 0
  /\ call.parentId # Null
  /\ call.id \in Range(tree.rootIds)
  /\ ret.rootIds # tree.rootIds
  /\ Len(TargetBefore) = 1
  /\ Len(TargetAfter) = 2

\* --------------------------------------------------------- canMoveItem: claim
\* C6: canMoveItem(tree, sourceId, targetId) is false when the two ids are
\* equal or targetId lies below sourceId in the children relation (open or
\* closed), and true in every other case, ids without an item included.
C6_CanMoveItem ==
  call.op = "canMove" =>
    (answer <=> ~(call.id = call.parentId \/ call.parentId \in DescendantSet(tree, call.id)))

\* refused for a grandchild below a closed child
C6_Witness ==
  /\ call.op = "canMove"
  /\ ~answer
  /\ HasItem(tree, call.id)
  /\ call.parentId \notin Range(tree.items[call.id].children)
  /\ call.id # call.parentId
  /\ \E c \in Range(tree.items[call.id].children) :
       HasItem(tree, c) /\ ~tree.items[c].isOpened
         /\ call.parentId \in Range(tree.items[c].children)

\* ---------------------------------------------------- flattenTree: claims
\* flattenTree has returned and none of the model's caps cut its run short
Returned == pc = "done" /\ ~truncated

OutIds == [i \in 1..Len(flattenedItems) |-> flattenedItems[i].item.id]

\* the pre-order walk of the claim: every id of ids that has an item, each
\* followed by the walk of its children when it is open
RECURSIVE PreOrder(_, _)
PreOrder(t, ids) ==
  IF ids = <<>> THEN <<>>
  ELSE LET id == Head(ids)
       IN (IF HasItem(t, id)
           THEN <<id>> \o (IF t.items[id].isOpened THEN PreOrder(t, t.items[id].children)
                                                   ELSE <<>>)
           ELSE <<>>) \o PreOrder(t, Tail(ids))

\* C1: flattenTree returns exactly the nodes reachable from rootIds through
\* open ancestors, in pre-order with siblings in rootIds/children order, and
\* no entry of the output is the child of a closed node.
C1_PreOrderOfOpenChains ==
  Returned =>
    /\ OutIds = PreOrder(tree, tree.rootIds)
    /\ \A i \in 1..Len(flattenedItems) :
         flattenedItems[i].parentId # Null => tree.items[flattenedItems[i].parentId].isOpened

\* an open root with two children in the output, or a closed node whose
\* existing, open child was left out
C1_Witness ==
  /\ Returned
  /\ \/ \E k \in Keys(tree) :
          /\ tree.items[k].isOpened
          /\ Len(tree.items[k].children) = 2
          /\ \E i \in 1..(Len(flattenedItems) - 2) :
               /\ OutIds[i] = k
               /\ OutIds[i + 1] = tree.items[k].children[1]
               /\ OutIds[i + 2] = tree.items[k].children[2]
               /\ OutIds[i + 1] # OutIds[i + 2]
     \/ \E k \in Keys(tree) :
          /\ ~tree.items[k].isOpened
          /\ k \in Range(OutIds)
          /\ \E c \in Range(tree.items[k].children) :
               HasItem(tree, c) /\ tree.items[c].isOpened /\ c \notin Range(OutIds)

AllOpen(t) == \A k \in Keys(t) : t.items[k].isOpened

C8_FlattenTerminates == <>(pc = "done")

\* ------------------------------------------------------ dangling references
DanglingRoots(t) == Range(t.rootIds) \ Keys(t)

DanglingChildren(t, k) == Range(t.items[k].children) \ Keys(t)

\* the same tree with every reference to a missing item deleted
WithoutDangling(t) ==
  [rootIds |-> SelectIds(t.rootIds, Keys(t)),
   items |-> [k \in Keys(t) |->
                [t.items[k] EXCEPT !.children = SelectIds(@, Keys(t))]]]

\* the node, its depth and its parent in each entry of an output
Visits(out) ==
  [i \in 1..Len(out) |->
     [id |-> out[i].item.id, isOpened |-> out[i].item.isOpened,
      customData |-> out[i].item.customData, depth |-> out[i].depth,
      parentId |-> out[i].parentId, flatIndex |-> out[i].flatIndex]]

DistinctSiblings(t) ==
  \A p \in {Null} \cup Keys(t) :
    \A c \in Range(Collection(t, p)) : Occurrences(Collection(t, p), c) = 1

\* the siblings of an entry that have an item, in sibling order
ExistingSiblings(e) == SelectIds(Collection(tree, e.parentId), Keys(tree))

\* C11: an entry's isLastTreeInSameDepth is true iff its node is the last, in
\* sibling order, of the siblings that have an item, also when the final id
\* of the rootIds/children list is a dangling reference.
C11_LastAmongExistingSiblings ==
  (Returned /\ DistinctSiblings(tree)) =>
    \A i \in 1..Len(flattenedItems) :
      LET e == flattenedItems[i]
      IN e.isLastTreeInSameDepth
           <=> e.item.id = ExistingSiblings(e)[Len(ExistingSiblings(e))]

\* the entry of the ancestor at depth d of the i-th entry: in a pre-order
\* output, the nearest earlier entry of that depth
AncestorAt(i, d) ==
  LET m == CHOOSE m \in 1..(i - 1) :
             /\ flattenedItems[m].depth = d
             /\ \A j \in (m + 1)..(i - 1) : flattenedItems[j].depth # d
  IN flattenedItems[m]

HasAncestorAt(i, d) == \E m \in 1..(i - 1) : flattenedItems[m].depth = d

C13_ChildIndexAmongAllSiblings ==
  (Returned /\ DistinctSiblings(tree)) =>
    \A i \in 1..Len(flattenedItems) :
      LET e == flattenedItems[i]
      IN e.childIndex = IndexOf(Collection(tree, e.parentId), e.item.id)

\* a visible child that follows a dangling sibling
C13_Witness ==
  /\ Returned /\ DistinctSiblings(tree)
  /\ \E i \in 1..Len(flattenedItems) :
       LET e == flattenedItems[i]
       IN /\ e.parentId # Null
          /\ e.childIndex = 1
          /\ ~HasItem(tree, Collection(tree, e.parentId)[1])

\* C14: a root entry has depth 0 and parentId null; any other entry names as
\* parentId the node through whose children it was reached and is one deeper
\* than that node's entry; the n-th entry (from 0) has flatIndex n.
C14_DepthParentFlatIndex ==
  Returned =>
    \A i \in 1..Len(flattenedItems) :
      LET e == flattenedItems[i]
      IN /\ e.flatIndex = i - 1
         /\ e.depth = 0 <=> e.parentId = Null
         /\ e.depth = 0 => e.item.id \in Range(tree.rootIds)
         /\ e.depth > 0 =>
              /\ HasAncestorAt(i, e.depth - 1)
              /\ AncestorAt(i, e.depth - 1).item.id = e.parentId
              /\ e.item.id \in Range(tree.items[e.parentId].children)

\* a root, its child and its grandchild in a row, then a second root
C14_Witness ==
  /\ Returned
  /\ Len(flattenedItems) = 3
  /\ flattenedItems[1].depth = 0 /\ flattenedItems[2].depth = 1
  /\ flattenedItems[3].depth = 2
  /\ flattenedItems[3].parentId = flattenedItems[2].item.id
  /\ flattenedItems[3].flatIndex = 2

\* ------------------------------------------------------ unknown parent ids
\* C16: insertTreeItem with a non-null parentId that is no key of items, and
\* moveTreeItem of an existing source to a non-null target.parentId that is
\* no key of items, report an error and return the tree they were given.
C16_UnknownParentReturnsInput ==
  /\ (call.op = "insert" /\ call.parentId # Null /\ ~HasItem(tree, call.parentId))
       => (ret = tree /\ logCount >= 1)
  /\ (call.op = "move" /\ HasItem(tree, call.id)
         /\ call.parentId # Null /\ ~HasItem(tree, call.parentId))
       => (ret = tree /\ logCount >= 1)

\* ===================================================== useTreeState
\* The hook keeps the structural tree (baseTree, the variable tree) and the
\* open-state Set apart and returns their merge.  A Set of a JavaScript
\* program tells the number 1 from the string "1", while the keys of
\* baseTree.items are property keys, always strings: a member of the Set is
\* an id together with its type.
SetMember(k, type) == [id |-> k, type |-> type]

\* a key of items as Object.entries and Object.keys give it
PropertyKey(k) == SetMember(k, "string")

\* an id as the caller writes it
CallerId(k) == SetMember(k, idType)

extractOpenedIdsAll(items) == {PropertyKey(k) : k \in DOMAIN items}

extractOpenedIds(items) == {PropertyKey(k) : k \in {j \in DOMAIN items : items[j].isOpened}}

\* options.initialOpenedIds, when given, seeds the Set verbatim
SeedOpenedIds(p) ==
  IF p.initialOpenedIds.given
    THEN {CallerId(k) : k \in Range(p.initialOpenedIds.ids)}
    ELSE extractOpenedIds(p.initialTree.items)

\* the tree the hook returns
MergedTree(baseTree, opened) ==
  [rootIds |-> baseTree.rootIds,
   items |-> [k \in Keys(baseTree) |->
                [baseTree.items[k] EXCEPT !.isOpened = PropertyKey(k) \in opened]]]

HookOutcome(opened, logs) == [openedIds |-> opened, logs |-> logs]

toggleOpen(baseTree, prev, id) ==
  IF ~HasItem(baseTree, id.id)
    THEN HookOutcome(prev, 1)
    ELSE HookOutcome(IF id \in prev THEN prev \ {id} ELSE prev \cup {id}, 0)

openUnchecked(baseTree, prev, id) == HookOutcome(prev \cup {id}, 0)

open(baseTree, prev, id) ==
  IF ~HasItem(baseTree, id.id)
    THEN HookOutcome(prev, 1)
    ELSE HookOutcome(prev \cup {id}, 0)

closeKeeps(baseTree, prev, id) ==
  IF ~HasItem(baseTree, id.id)
    THEN HookOutcome(prev, 1)
    ELSE HookOutcome(prev, 0)

close(baseTree, prev, id) ==
  IF ~HasItem(baseTree, id.id)
    THEN HookOutcome(prev, 1)
    ELSE HookOutcome(prev \ {id}, 0)

openAll(baseTree) == HookOutcome({PropertyKey(k) : k \in Keys(baseTree)}, 0)

closeAll == HookOutcome({}, 0)

\* one call of the hook's interface: the tree returned before it, the state
\* after it and the tree returned after it
HookReturns(c, newBase, o) ==
  /\ steps < MaxSteps
  /\ call' = c
  /\ callerTree' = ret
  /\ tree' = newBase
  /\ openedIds' = o.openedIds
  /\ ret' = MergedTree(newBase, o.openedIds)
  /\ logCount' = o.logs
  /\ steps' = steps + 1
  /\ UNCHANGED <<answer, props, idType, flatVars, pathVars>>

ToggleOpen ==
  \E k \in Ids :
    HookReturns(Call("toggleOpen", k, Null, "none", 0), tree,
                toggleOpen(tree, openedIds, CallerId(k)))

Open ==
  \E k \in Ids :
    HookReturns(Call("open", k, Null, "none", 0), tree,
                open(tree, openedIds, CallerId(k)))

Close ==
  \E k \in Ids :
    HookReturns(Call("close", k, Null, "none", 0), tree,
                close(tree, openedIds, CallerId(k)))

OpenAll == HookReturns(Call("openAll", Null, Null, "none", 0), tree, openAll(tree))

CloseAll == HookReturns(Call("closeAll", Null, Null, "none", 0), tree, closeAll)

\* open(k) and close(k) called one after the other in one event handler:
\* both test the baseTree of the same render, the updaters run in call order
OpenThenClose ==
  \E k \in Ids :
    HookReturns(Call("openThenClose", k, Null, "none", 0), tree,
                HookOutcome(close(tree, open(tree, openedIds, CallerId(k)).openedIds,
                                  CallerId(k)).openedIds,
                            open(tree, openedIds, CallerId(k)).logs
                              + close(tree, openedIds, CallerId(k)).logs))

\* removeItem and moveItem hand baseTree and its parent map to the pure
\* mutators and keep what they return; the open-state Set is not theirs
removeItem(baseTree, prev, itemId) ==
  [tree |-> RemoveTreeItem(baseTree, itemId, buildParentMap(baseTree)).tree,
   openedIds |-> prev,
   logs |-> RemoveTreeItem(baseTree, itemId, buildParentMap(baseTree)).logs]

moveItem(baseTree, prev, sourceId, target) ==
  [tree |-> MoveTreeItem(baseTree, buildParentMap(baseTree), sourceId, target).tree,
   openedIds |-> prev,
   logs |-> MoveTreeItem(baseTree, buildParentMap(baseTree), sourceId, target).logs]

RemoveItem ==
  \E itemId \in Ids :
    /\ HasItem(tree, itemId) => DescendantWalkEnds(tree, itemId)
    /\ HookReturns(Call("removeItem", itemId, Null, "none", 0),
                   removeItem(tree, openedIds, itemId).tree,
                   removeItem(tree, openedIds, itemId))

\* moving to the end of the roots
HookMoveTargets == {t \in MoveTargets : t.kind = "last" /\ t.parentId = Null}

MoveItem ==
  \E sourceId \in Ids, target \in HookMoveTargets :
    HookReturns(Call("moveItem", sourceId, target.parentId, target.kind, target.v),
                moveItem(tree, openedIds, sourceId, target).tree,
                moveItem(tree, openedIds, sourceId, target))

\* the state the effect of useDidUpdate leaves: with syncWithInitialTree both
\* pieces of state are set again from the props of this render
SyncEffectTreeOnly(baseTree, prev, p) ==
  IF p.syncWithInitialTree
    THEN [tree |-> p.initialTree, openedIds |-> prev]
    ELSE [tree |-> baseTree, openedIds |-> prev]

SyncEffect(baseTree, prev, p) ==
  IF p.syncWithInitialTree
    THEN [tree |-> p.initialTree, openedIds |-> SeedOpenedIds(p)]
    ELSE [tree |-> baseTree, openedIds |-> prev]

\* the trees a parent component passes at a later render: an equal tree and
\* another structure with other flags
LaterInitialTrees(t) ==
  {t, [rootIds |-> <<MaxId>>, items |-> [k \in {MaxId} |-> Node(k, <<>>, TRUE)]]}

\* useDidUpdate runs its effect after a render, other than the first, in which
\* one of the dependencies [initialTree, options?.syncWithInitialTree] is not
\* identical to its value at the render before
DependenciesChanged(newReference, sync, p) ==
  newReference \/ sync # p.syncWithInitialTree

\* the parent component renders again: call.v tells whether initialTree is a
\* new reference
Rerender ==
  \E newReference \in BOOLEAN, sync \in BOOLEAN :
    \E t \in (IF newReference THEN LaterInitialTrees(props.initialTree)
                              ELSE {props.initialTree}) :
      /\ steps < MaxSteps
      /\ props' = [props EXCEPT !.initialTree = t, !.syncWithInitialTree = sync]
      /\ call' = Call("rerender", Null, Null, "none", IF newReference THEN 1 ELSE 0)
      /\ callerTree' = ret
      /\ IF DependenciesChanged(newReference, sync, props)
           THEN /\ tree' = SyncEffect(tree, openedIds, props').tree
                /\ openedIds' = SyncEffect(tree, openedIds, props').openedIds
           ELSE UNCHANGED <<tree, openedIds>>
      /\ ret' = MergedTree(tree', openedIds')
      /\ logCount' = 0
      /\ steps' = steps + 1
      /\ UNCHANGED <<answer, idType, flatVars, pathVars>>

\* the lists a caller passes as options.initialOpenedIds
OpenedIdLists == {<<>>} \cup {<<k>> : k \in Ids}

\* the first render of useTreeState over a well-formed initialTree
InitHook ==
  /\ \E s \in InjectiveSeqs :
       \E c \in Cuts(Len(s)) :
         /\ tree = CutTree(s, c, Range(s), OpenedAtStart \cap Range(s))
         /\ WellFormed(tree)
  /\ idType \in {"number", "string"}
  /\ \E sync \in BOOLEAN, given \in BOOLEAN :
       \E ids \in (IF given THEN OpenedIdLists ELSE {<<>>}) :
         props = [initialTree |-> tree, syncWithInitialTree |-> sync,
                  initialOpenedIds |-> [given |-> given, ids |-> ids]]
  /\ openedIds = SeedOpenedIds(props)
  /\ call = Call("none", Null, Null, "none", 0)
  /\ ret = MergedTree(tree, openedIds)
  /\ callerTree = ret
  /\ logCount = 0
  /\ answer = FALSE
  /\ steps = 0
  /\ pc = "idle"
  /\ NoRun

NextHook ==
  \/ ToggleOpen
  \/ Open
  \/ Close
  \/ OpenAll
  \/ CloseAll
  \/ OpenThenClose
  \/ RemoveItem
  \/ MoveItem
  \/ Rerender

SpecHook == InitHook /\ [][NextHook]_vars

\* ------------------------------------------------ claims on useTreeState
ByMissingId == {"open", "close", "toggleOpen", "removeItem", "moveItem"}

\* C15: open, close, toggleOpen, removeItem and moveItem called with an id
\* (for moveItem: a source id) that is no key of items leave the structural
\* tree, the open-state Set and the returned tree as they were and log
\* exactly one error.
C15_MissingIdIsNoOp ==
  [][(call'.op \in ByMissingId /\ ~HasItem(tree, call'.id))
       => /\ tree' = tree
          /\ openedIds' = openedIds
          /\ ret' = ret
          /\ logCount' = 1]_vars

\* toggleOpen of a missing id on a tree that has items: one error, the
\* returned tree as before
C15_Witness ==
  /\ call.op = "toggleOpen"
  /\ ~HasItem(tree, call.id)
  /\ Keys(tree) # {}
  /\ logCount = 1
  /\ ret = callerTree

OpenStateOps == {"open", "close", "toggleOpen", "openAll", "closeAll"}

\* the returned trees before and after the call differ in isOpened at most
SameStructure ==
  /\ ret.rootIds = callerTree.rootIds
  /\ Keys(ret) = Keys(callerTree)
  /\ \A k \in Keys(ret) :
       /\ ret.items[k].id = callerTree.items[k].id
       /\ ret.items[k].children = callerTree.items[k].children
       /\ ret.items[k].customData = callerTree.items[k].customData

OthersUnchanged ==
  \A k \in Keys(ret) \ {call.id} : ret.items[k].isOpened = callerTree.items[k].isOpened

\* C17: in the tree useTreeState returns, after open(i), close(i),
\* toggleOpen(i) with i a key of items, node i reads isOpened true, false,
\* the negation of what it read before, and every other node reads as
\* before; after openAll() every node reads true, after closeAll() every
\* node reads false; rootIds, children and customData are as before.
C17_MergedIsOpened ==
  call.op \in OpenStateOps =>
    /\ SameStructure
    /\ (call.op = "open" /\ HasItem(tree, call.id))
         => (ret.items[call.id].isOpened /\ OthersUnchanged)
    /\ (call.op = "close" /\ HasItem(tree, call.id))
         => (~ret.items[call.id].isOpened /\ OthersUnchanged)
    /\ (call.op = "toggleOpen" /\ HasItem(tree, call.id))
         => /\ ret.items[call.id].isOpened = ~callerTree.items[call.id].isOpened
            /\ OthersUnchanged
    /\ call.op = "openAll" => \A k \in Keys(ret) : ret.items[k].isOpened
    /\ call.op = "closeAll" => \A k \in Keys(ret) : ~ret.items[k].isOpened

EffectiveStateRestored ==
  \A k \in Keys(ret) : ret.items[k].isOpened = callerTree.items[k].isOpened

\* C18 as stated: for every id i of items and every starting open-state,
\* open(i) followed by close(i) leaves every node's effective isOpened as it
\* was before the two calls.
C18_OpenThenCloseRestores ==
  (call.op = "openThenClose" /\ HasItem(tree, call.id)) => EffectiveStateRestored

\* C18, amended: the same for every id i of items that reads closed before
\* the two calls.
C18_OpenThenCloseRestoresClosed ==
  (/\ call.op = "openThenClose"
   /\ HasItem(tree, call.id)
   /\ ~callerTree.items[call.id].isOpened) => EffectiveStateRestored

\* string ids, a closed node opened and closed again beside an open one
C18_Witness ==
  /\ call.op = "openThenClose"
  /\ idType = "string"
  /\ HasItem(tree, call.id)
  /\ ~callerTree.items[call.id].isOpened
  /\ \E k \in Keys(ret) \ {call.id} : ret.items[k].isOpened
  /\ EffectiveStateRestored

MemberIds == {m.id : m \in openedIds}

StoredOpen == {k \in Keys(props.initialTree) : props.initialTree.items[k].isOpened}

PathEntry(nodeId, pathToNode) == [id |-> nodeId, currentPath |-> pathToNode]

RootEntries(t) == [i \in 1..Len(t.rootIds) |-> PathEntry(t.rootIds[i], <<t.rootIds[i]>>)]

ChildEntryParentPath(currentPath, childId) == PathEntry(childId, currentPath)

ChildEntry(currentPath, childId) == PathEntry(childId, Append(currentPath, childId))

\* the children of an item pushed from the last to the first
ChildEntriesReversed(currentPath, children) ==
  [i \in 1..Len(children) |-> ChildEntry(currentPath, children[Len(children) + 1 - i])]

\* const stack = []; for (const rootId of tree.rootIds) stack.push(...);
\* const visited = new Set()
GetPathStart ==
  /\ pc = "start"
  /\ call.op = "none"
  /\ \E targetId \in Ids : call' = Call("getPath", targetId, Null, "none", 0)
  /\ stack' = RootEntries(tree)
  /\ visited' = {}
  /\ pc' = "loop"
  /\ UNCHANGED <<tree, ret, callerTree, logCount, answer, steps,
                 flattenedItems, errors, truncated, path, descendants, indexVars, hookVars>>

\* one turn of while (stack.length > 0)
GetPathIterate ==
  /\ pc = "loop"
  /\ call.op = "getPath"
  /\ stack # <<>>
  /\ LET top == stack[Len(stack)]
         rest == SubSeq(stack, 1, Len(stack) - 1)
         children == IF HasItem(tree, top.id) THEN tree.items[top.id].children ELSE <<>>
     IN IF top.id \in visited
          THEN /\ stack' = rest
               /\ UNCHANGED <<visited, path, pc>>
          ELSE IF top.id = call.id
            THEN /\ stack' = rest
                 /\ visited' = visited \cup {top.id}
                 /\ path' = top.currentPath
                 /\ pc' = "done"
            ELSE /\ stack' = rest \o ChildEntriesReversed(top.currentPath, children)
                 /\ visited' = visited \cup {top.id}
                 /\ UNCHANGED <<path, pc>>
  /\ UNCHANGED <<tree, editVars, flattenedItems, errors, truncated, descendants,
                 indexVars, hookVars>>

\* the stack ran empty: return []
GetPathNotFound ==
  /\ pc = "loop"
  /\ call.op = "getPath"
  /\ stack = <<>>
  /\ path' = <<>>
  /\ pc' = "done"
  /\ UNCHANGED <<tree, editVars, stack, flattenedItems, errors, truncated, visited,
                 descendants, indexVars, hookVars>>

InitPath == AnyTree /\ NoCall /\ pc = "start" /\ NoRun /\ NoHook

NextPath == GetPathStart \/ GetPathIterate \/ GetPathNotFound

SpecPath == InitPath /\ [][NextPath]_vars

\* a call that has started takes its next step
FairSpecPath == SpecPath /\ WF_vars(NextPath)

\* the ids reachable from a root through children
ReachableFromRoots(t) == ReachWithin(t, Range(t.rootIds), MaxId)

IsPathTo(t, p, id) ==
  /\ p[1] \in Range(t.rootIds)
  /\ p[Len(p)] = id
  /\ \A i \in 1..(Len(p) - 1) :
       HasItem(t, p[i]) /\ p[i + 1] \in Range(t.items[p[i]].children)

GetPathReturned == pc = "done" /\ call.op = "getPath"

\* C21: getPath returns on every tree, cycles, self-references and dangling
\* references included; a non-empty result starts with a root id, ends with
\* the target, and each later element is a child of the element before it;
\* the result is empty iff the target is not reachable from a root.
C21_GetPath ==
  /\ <>GetPathReturned
  /\ [](GetPathReturned =>
          /\ path # <<>> => IsPathTo(tree, path, call.id)
          /\ path = <<>> <=> call.id \notin ReachableFromRoots(tree))

\* a target found below a node that lies on a cycle
C21_Witness ==
  /\ GetPathReturned
  /\ ~Acyclic(tree)
  /\ Len(path) > 1
  /\ \E k \in Range(path) \cap Keys(tree) : k \in DescendantSet(tree, k)

\* ================================================= getAllDescendantIds
\* a call whose queue never runs empty does not return
Descendants ==
  /\ call.op = "none"
  /\ \E id \in Ids :
       /\ DescendantWalkEnds(tree, id)
       /\ call' = Call("getAllDescendantIds", id, Null, "none", 0)
       /\ descendants' = getAllDescendantIds(tree, id)
  /\ UNCHANGED <<tree, ret, callerTree, logCount, answer, steps, flatVars, hookVars,
                 visited, path, indexVars>>

NextDescendants == Descendants

SpecDescendants == InitQuery /\ [][NextDescendants]_vars

RECURSIVE ChildrenOfAll(_, _)
\* the children of the ids of a level, in the order of the level
ChildrenOfAll(t, level) ==
  IF level = <<>> THEN <<>>
  ELSE (IF HasItem(t, Head(level)) THEN t.items[Head(level)].children ELSE <<>>)
         \o ChildrenOfAll(t, Tail(level))

RECURSIVE LevelOrder(_, _, _)
\* the ids at distance 1, then those at distance 2, ... up to n levels
LevelOrder(t, level, n) ==
  IF level = <<>> \/ n = 0 THEN <<>>
  ELSE level \o LevelOrder(t, ChildrenOfAll(t, level), n - 1)

FlipOpened(t) ==
  [rootIds |-> t.rootIds,
   items |-> [k \in Keys(t) |-> [t.items[k] EXCEPT !.isOpened = ~t.items[k].isOpened]]]

DescendantsReturned == call.op = "getAllDescendantIds"

\* C22: on an acyclic tree getAllDescendantIds(tree, id) lists every
\* transitive descendant of id and never id itself, level by level (distance
\* 1, then distance 2, ...), siblings in children order; it is the same
\* whatever the isOpened flags, lists referenced ids that have no item, and
\* is empty when id has no children or is no key of items.
C22_BreadthFirstDescendants ==
  (DescendantsReturned /\ Acyclic(tree)) =>
    /\ Range(descendants) = DescendantSet(tree, call.id)
    /\ call.id \notin Range(descendants)
    /\ descendants = LevelOrder(tree, Collection(tree, IF HasItem(tree, call.id)
                                                         THEN call.id ELSE Null),
                                IF HasItem(tree, call.id) THEN MaxRefs ELSE 0)
    /\ descendants = getAllDescendantIds(FlipOpened(tree), call.id)
    /\ (~HasItem(tree, call.id) \/ tree.items[call.id].children = <<>>)
         => descendants = <<>>

\* a grandchild listed after both children, one of them without an item
C22_Witness ==
  /\ DescendantsReturned
  /\ Acyclic(tree)
  /\ HasItem(tree, call.id)
  /\ Len(descendants) = MaxId
  /\ Len(tree.items[call.id].children) = MaxId - 1
  /\ \E k \in Range(descendants) : ~HasItem(tree, k)

\* ============================== buildParentMap, buildChildrenIndexMap
\* both Maps built from the current tree
BuildIndexes ==
  /\ call.op = "none"
  /\ call' = Call("buildIndexes", Null, Null, "none", 0)
  /\ builtParentMap' = buildParentMap(tree)
  /\ builtChildrenIndexMap' = buildChildrenIndexMap(tree)
  /\ UNCHANGED <<tree, ret, callerTree, logCount, answer, steps, flatVars, hookVars,
                 visited, path, descendants>>

NextIndex == BuildIndexes

SpecIndex == InitQuery /\ [][NextIndex]_vars

Referenced(t) == Range(t.rootIds) \cup ChildIdsOf(t, Keys(t))

ReferencedAtMostOnce(t) == \A c \in Ids : RefCount(t, c) <= 1

\* C23: on a tree in which every id is referenced at most once, the parent
\* map has an entry exactly for the referenced ids, null for the ids of
\* rootIds and p for the ids of items[p].children; the children index map
\* has an entry for null and for every key of items, and the entry of p maps
\* the id at (0-based) position i of p's collection to i and nothing else.
C23_IndexMaps ==
  (call.op = "buildIndexes" /\ ReferencedAtMostOnce(tree)) =>
    /\ DOMAIN builtParentMap = Referenced(tree)
    /\ \A c \in DOMAIN builtParentMap :
         /\ builtParentMap[c] = Null <=> c \in Range(tree.rootIds)
         /\ \A p \in Keys(tree) :
              builtParentMap[c] = p <=> c \in Range(tree.items[p].children)
    /\ DOMAIN builtChildrenIndexMap = {Null} \cup Keys(tree)
    /\ \A p \in {Null} \cup Keys(tree) :
         /\ DOMAIN builtChildrenIndexMap[p] = Range(Collection(tree, p))
         /\ \A i \in 1..Len(Collection(tree, p)) :
              builtChildrenIndexMap[p][Collection(tree, p)[i]] = i - 1

\* two roots, the second with a child
C23_Witness ==
  /\ call.op = "buildIndexes"
  /\ ReferencedAtMostOnce(tree)
  /\ Len(tree.rootIds) = MaxId - 1
  /\ \E p \in Keys(tree) \cap Range(tree.rootIds) :
       /\ builtChildrenIndexMap[Null][p] = 1
       /\ \E c \in DOMAIN builtParentMap : builtParentMap[c] = p

\* ===================================== removeTreeItem, any parent map
\* The caller passes a parent map that was built from the tree at some time:
\* the map of the current tree, or one that lacks some of its entries.
SuppliedParentMaps(t) ==
  {[c \in D |-> buildParentMap(t)[c]] : D \in SUBSET DOMAIN buildParentMap(t)}

RemoveWithParentMap ==
  /\ call.op = "none"
  /\ \E itemId \in Ids :
       \E pm \in SuppliedParentMaps(tree) :
         /\ HasItem(tree, itemId) => DescendantWalkEnds(tree, itemId)
         /\ builtParentMap' = pm
         /\ call' = Call("remove", itemId, Null, "none", 0)
         /\ ret' = RemoveTreeItem(tree, itemId, pm).tree
         /\ callerTree' = RemoveTreeItem(tree, itemId, pm).input
         /\ logCount' = RemoveTreeItem(tree, itemId, pm).logs
  /\ UNCHANGED <<tree, answer, steps, flatVars, hookVars, visited, path, descendants,
                 builtChildrenIndexMap>>

NextRemove == RemoveWithParentMap

SpecRemove == InitQuery /\ [][NextRemove]_vars

\* C24: removeTreeItem of an id that is a key of items and has no entry in
\* the parent map it was given logs an error and returns the tree it was
\* given, as it was: no item removed, no rootIds or children list changed.
C24_NoParentMapEntry ==
  (/\ call.op = "remove"
   /\ HasItem(tree, call.id)
   /\ call.id \notin DOMAIN builtParentMap)
    => /\ ret = tree
       /\ callerTree = tree
       /\ logCount = 1

\* a referenced item that has a child, removed with a map that lacks its entry
C24_Witness ==
  /\ call.op = "remove"
  /\ HasItem(tree, call.id)
  /\ call.id \notin DOMAIN builtParentMap
  /\ call.id \in Referenced(tree)
  /\ tree.items[call.id].children # <<>>
  /\ ret = tree
  /\ logCount = 1

\* ------------------------------------------ well-formedness is preserved
ValidInsert == InsertAllowed /\ ValidPosition

ValidRemove == call.op = "remove" /\ HasItem(tree, call.id)

ValidMove ==
  /\ call.op = "move"
  /\ HasItem(tree, call.id)
  /\ call.parentId # Null => canMoveItem(tree, call.id, call.parentId)
  /\ (call.kind = "index" /\ (call.parentId = Null \/ HasItem(tree, call.parentId)))
       => (call.v >= 0 /\ call.v <= PostRemovalLength)

\* C25: insertTreeItem of a fresh id with no children below null or an
\* existing parent at a valid position, removeTreeItem of an existing id and
\* moveTreeItem of an existing source to null or to a parent canMoveItem
\* allows, an index within [0, post-removal length], each with the maps built
\* from the current tree, turn a well-formed tree into a well-formed tree; so
\* does every sequence of them.
C25_WellFormedPreserved ==
  (WellFormed(tree) /\ (ValidInsert \/ ValidRemove \/ ValidMove)) => WellFormed(ret)

\* the second operation of a sequence: a node with a child moved below a
\* former sibling
C25_Witness ==
  /\ steps > 0
  /\ WellFormed(tree)
  /\ ValidMove
  /\ call.parentId # Null
  /\ tree.items[call.id].children # <<>>
  /\ ret # tree
  /\ WellFormed(ret)

\* ------------------------------------------- a move into the own subtree
MoveIntoOwnSubtree ==
  /\ call.op = "move"
  /\ WellFormed(tree)
  /\ HasItem(tree, call.id)
  /\ call.parentId # Null
  /\ HasItem(tree, call.parentId)
  /\ ~canMoveItem(tree, call.id, call.parentId)

\* C26: moveTreeItem of a source of a (well-formed) tree below itself or
\* below one of its descendants logs nothing and returns a tree with the
\* same keys of items in which the source is not reachable from rootIds any
\* more and is its own descendant.
C26_MoveIntoOwnSubtree ==
  MoveIntoOwnSubtree =>
    /\ logCount = 0
    /\ Keys(ret) = Keys(tree)
    /\ call.id \notin ReachableFromRoots(ret)
    /\ call.id \in DescendantSet(ret, call.id)

\* a node with a child moved below that child, beside another root
C26_Witness ==
  /\ MoveIntoOwnSubtree
  /\ call.parentId # call.id
  /\ ret.rootIds # <<>>
  /\ logCount = 0
  /\ call.id \in Range(ret.items[call.parentId].children)
  /\ call.parentId \in Range(ret.items[call.id].children)

\* ------------------------------------------------ a move to an index
\* C27: moveTreeItem with an explicit index >= 0, however large, is carried
\* out without an error being logged, and the source ends at position
\* min(index, post-removal length) of the target collection, the index
\* counted in the collection without the source.
C27_IndexAsGiven ==
  (MoveAllowed /\ call.kind = "index" /\ call.v >= 0) =>
    /\ logCount = 0
    /\ Occurrences(TargetAfter, call.id) = 1
    /\ IndexOf(TargetAfter, call.id) = Min(call.v, PostRemovalLength)
    /\ SelectIds(TargetAfter, Ids \ {call.id}) = SelectIds(TargetBefore, Ids \ {call.id})

\* a move inside one collection to an index beyond its post-removal length
C27_Witness ==
  /\ MoveAllowed
  /\ call.kind = "index"
  /\ call.v > PostRemovalLength
  /\ call.id \in Range(TargetBefore)
  /\ PostRemovalLength > 0
  /\ IndexOf(TargetBefore, call.id) = 0
  /\ IndexOf(TargetAfter, call.id) = PostRemovalLength
  /\ logCount = 0

\* --------------------------------------------------- the frame of a move
\* a move that is carried out: the source and the target parent exist
MoveCarriedOut ==
  /\ call.op = "move"
  /\ WellFormed(tree)
  /\ HasItem(tree, call.id)
  /\ call.parentId = Null \/ HasItem(tree, call.parentId)

FormerParent == ParentMapGet(buildParentMap(tree), call.id)

WithoutSource(s) == SelectIds(s, Ids \ {call.id})

\* nothing but the children of the former and of the target parent changes
MoveFrame ==
  /\ Keys(ret) = Keys(tree)
  /\ \A k \in Keys(tree) \ {FormerParent, call.parentId} : ret.items[k] = tree.items[k]
  /\ \A k \in Keys(tree) : [ret.items[k] EXCEPT !.children = <<>>]
                             = [tree.items[k] EXCEPT !.children = <<>>]
  /\ Null \notin {FormerParent, call.parentId} => ret.rootIds = tree.rootIds
  /\ WithoutSource(Collection(ret, FormerParent))
       = WithoutSource(Collection(tree, FormerParent))
  /\ WithoutSource(TargetAfter) = WithoutSource(TargetBefore)

\* C28 as stated: a move that is carried out keeps the keys of items and
\* every node but the former and the target parent, keeps the order of the
\* other members of both collections, and leaves the former parent's
\* collection equal to its old value with the source deleted.
C28_MoveFrameFormerWithoutSource ==
  MoveCarriedOut =>
    /\ MoveFrame
    /\ Collection(ret, FormerParent) = WithoutSource(Collection(tree, FormerParent))

\* C28, amended: the same, the former parent's collection being its old
\* value with the source deleted when the former parent is not the target
\* parent.
C28_MoveFrame ==
  MoveCarriedOut =>
    /\ MoveFrame
    /\ FormerParent # call.parentId
         => Collection(ret, FormerParent) = WithoutSource(Collection(tree, FormerParent))

\* a root moved to the front of the children of the other root
C28_Witness ==
  /\ MoveCarriedOut
  /\ FormerParent = Null
  /\ call.parentId # Null
  /\ Len(tree.rootIds) = MaxId - 1
  /\ TargetBefore # <<>>
  /\ IndexOf(TargetAfter, call.id) = 0
  /\ Len(TargetAfter) = Len(TargetBefore) + 1
  /\ Len(ret.rootIds) = 1

\* ------------------------------------------- an insert of an existing id
NonFreshInsert ==
  /\ call.op = "insert"
  /\ WellFormed(tree)
  /\ HasItem(tree, call.id)
  /\ call.parentId = Null \/ HasItem(tree, call.parentId)
  /\ ValidPosition

ReplacedAndListedAgain ==
  /\ logCount = 0
  /\ Keys(ret) = Keys(tree)
  /\ ret.items[call.id] = NewItem(call.id)
  /\ Occurrences(TargetAfter, call.id) = Occurrences(TargetBefore, call.id) + 1
  /\ RefCount(ret, call.id) > 1

\* C29 as stated: insertTreeItem of a newItem whose id is a key of items
\* already, below null or an existing parent at a valid position, logs
\* nothing, makes items[newItem.id] the newItem (the former node's children
\* are no longer listed by it) and lists the id once more in the target
\* collection, so that the id is referenced more than once.
C29_NonFreshInsert == NonFreshInsert => ReplacedAndListedAgain

\* C29, amended: the same for a parent other than newItem.id itself.
C29_NonFreshInsertElsewhere ==
  (NonFreshInsert /\ call.parentId # call.id) => ReplacedAndListedAgain

\* a node that has a child, inserted again right after itself: the child is
\* still an item and is listed nowhere
C29_Witness ==
  /\ NonFreshInsert
  /\ call.parentId # call.id
  /\ call.kind = "after"
  /\ call.v = call.id
  /\ tree.items[call.id].children # <<>>
  /\ Occurrences(TargetAfter, call.id) = 2
  /\ \E k \in Keys(ret) : RefCount(ret, k) = 0

\* ====================================== useTreeState, batched calls
\* Calls made in one event handler queue their state updates; React applies
\* the queue in call order at the next render: a value replaces the state, an
\* updater function is applied to the state the updates before it left.
HookCall(op, id) == [op |-> op, id |-> id]

HookCalls ==
  {HookCall(op, k) : op \in {"toggleOpen", "open", "close"}, k \in Ids}
    \cup {HookCall("openAll", Null), HookCall("closeAll", Null)}

\* a variant in which toggleOpen, open and close compute the new Set from
\* the Set of the render their callback belongs to
QueuedUpdateFromRender(baseTree, rendered, c) ==
  CASE c.op = "openAll" -> [kind |-> "value", value |-> openAll(baseTree).openedIds, logs |-> 0]
    [] c.op = "closeAll" -> [kind |-> "value", value |-> closeAll.openedIds, logs |-> 0]
    [] OTHER ->
         IF ~HasItem(baseTree, c.id) THEN [kind |-> "none", logs |-> 1]
         ELSE [kind |-> "value",
               value |-> (CASE c.op = "toggleOpen" ->
                                 toggleOpen(baseTree, rendered, CallerId(c.id)).openedIds
                            [] c.op = "open" -> open(baseTree, rendered, CallerId(c.id)).openedIds
                            [] OTHER -> close(baseTree, rendered, CallerId(c.id)).openedIds),
               logs |-> 0]

\* what one call puts into the queue: nothing after a logError, the updater
\* (prev) => ... for toggleOpen, open and close, a new Set for openAll and
\* closeAll; baseTree and rendered are the state of the render the callback
\* belongs to, and no callback reads rendered
QueuedUpdate(baseTree, rendered, c) ==
  CASE c.op = "openAll" -> [kind |-> "value", value |-> openAll(baseTree).openedIds, logs |-> 0]
    [] c.op = "closeAll" -> [kind |-> "value", value |-> closeAll.openedIds, logs |-> 0]
    [] OTHER ->
         IF ~HasItem(baseTree, c.id) THEN [kind |-> "none", logs |-> 1]
         ELSE [kind |-> "updater", op |-> c.op, id |-> CallerId(c.id), logs |-> 0]

\* the state after one queued update
ApplyUpdate(baseTree, prev, u) ==
  CASE u.kind = "value" -> u.value
    [] u.kind = "none" -> prev
    [] u.op = "toggleOpen" -> toggleOpen(baseTree, prev, u.id).openedIds
    [] u.op = "open" -> open(baseTree, prev, u.id).openedIds
    [] OTHER -> close(baseTree, prev, u.id).openedIds

RECURSIVE ProcessQueue(_, _, _)
ProcessQueue(baseTree, prev, queue) ==
  IF queue = <<>> THEN prev
  ELSE ProcessQueue(baseTree, ApplyUpdate(baseTree, prev, Head(queue)), Tail(queue))

RECURSIVE QueueLogs(_)
QueueLogs(queue) == IF queue = <<>> THEN 0 ELSE Head(queue).logs + QueueLogs(Tail(queue))

BatchCall(calls) ==
  [op |-> "batch", id |-> Null, parentId |-> Null, kind |-> "none", v |-> 0, calls |-> calls]

\* up to MaxBatch calls in one event handler of the first render, then the
\* render that follows
Batch ==
  /\ call.op = "none"
  /\ \E calls \in SeqsUpTo(HookCalls, MaxBatch) :
       LET queue == [i \in 1..Len(calls) |-> QueuedUpdate(tree, openedIds, calls[i])]
       IN /\ calls # <<>>
          /\ call' = BatchCall(calls)
          /\ callerTree' = ret
          /\ openedIds' = ProcessQueue(tree, openedIds, queue)
          /\ ret' = MergedTree(tree, openedIds')
          /\ logCount' = QueueLogs(queue)
  /\ UNCHANGED <<tree, answer, steps, props, idType, flatVars, pathVars>>

NextBatch == Batch

SpecBatch == InitHook /\ [][NextBatch]_vars

\* one call with a render before it: the state it leaves
AfterCall(baseTree, prev, c) ==
  CASE c.op = "toggleOpen" -> toggleOpen(baseTree, prev, CallerId(c.id)).openedIds
    [] c.op = "open" -> open(baseTree, prev, CallerId(c.id)).openedIds
    [] c.op = "close" -> close(baseTree, prev, CallerId(c.id)).openedIds
    [] c.op = "openAll" -> openAll(baseTree).openedIds
    [] OTHER -> closeAll.openedIds

RECURSIVE OneAtATime(_, _, _)
OneAtATime(baseTree, prev, calls) ==
  IF calls = <<>> THEN prev
  ELSE OneAtATime(baseTree, AfterCall(baseTree, prev, Head(calls)), Tail(calls))

\* C30: toggleOpen, open, close, openAll and closeAll called one after the
\* other in one batch leave the open-state Set that the same calls leave
\* when each is made after a render of its own; toggleOpen(i) twice leaves
\* node i as it was, and after open(i), closeAll() node i reads closed.
C30_BatchInCallOrder ==
  call.op = "batch" =>
    /\ openedIds = OneAtATime(tree, SeedOpenedIds(props), call.calls)
    /\ ret = MergedTree(tree, OneAtATime(tree, SeedOpenedIds(props), call.calls))
    /\ (call.calls = <<HookCall("toggleOpen", call.calls[1].id),
                       HookCall("toggleOpen", call.calls[1].id)>>)
         => ret = callerTree
    /\ (Len(call.calls) = MaxBatch /\ call.calls[MaxBatch].op = "closeAll")
         => \A k \in Keys(ret) : ~ret.items[k].isOpened

\* string ids: a closed node opened and another node toggled in one batch,
\* both read open afterwards
C30_Witness ==
  /\ call.op = "batch"
  /\ idType = "string"
  /\ Len(call.calls) > 1
  /\ call.calls[1].op = "open"
  /\ call.calls[Len(call.calls)].op = "toggleOpen"
  /\ call.calls[1].id # call.calls[Len(call.calls)].id
  /\ \A i \in {1, Len(call.calls)} :
       /\ HasItem(tree, call.calls[i].id)
       /\ ~callerTree.items[call.calls[i].id].isOpened
       /\ ret.items[call.calls[i].id].isOpened
====
